---- MODULE Spec2Model ----
(***************************************************************************)
(* Tile-atlas visualization engine of web-tsne-viewer.                     *)
(*                                                                         *)
(* The model follows src/unnamed/part_000, the viewer whose button steps   *)
(* through the modes 3D -> 2D -> 2D_GRID -> 3D.                            *)
(* The single-atlas viewer src/main.js is modelled at the end (SpecAtlas). *)
(*                                                                         *)
(* An async function is a process: a record of cycles with its locals and  *)
(* the await it is suspended at.  One action is one turn of the event      *)
(* loop: the completion of one load, and all the code that runs from the   *)
(* await it resumes up to the next await.                                  *)
(*                                                                         *)
(* Numbers: spacing multipliers are kept in tenths (spaceBetweenTiles 0.1  *)
(* is 1, the grid multiplier 2.0 is 20), so positions are integers in      *)
(* tenths of a world unit.                                                 *)
(***************************************************************************)
EXTENDS Integers, Sequences, FiniteSets, TLC

(* ---- program constants ------------------------------------------------ *)
montageTilesX == 15
montageTilesY == 15
montageTileResolution == 256
scalar_ == 1
maxAttempts == 20
gridMultiplier == 20
initialSpaceBetweenTiles == 1

(* ---- bounds of the model ---------------------------------------------- *)
\* montage files montage_0 .. montage_(numFiles-1) exist, numFiles <= MaxFiles
MaxFiles == 2
\* load cycles (startup + mode switches) in one behaviour
MaxCycles == 4
\* disturbances in one behaviour: loads of an existing asset that fail,
\* spacing and axis-checkbox events, clicks while a load cycle is in flight
MaxEvents == 1
\* largest total of the stand-alone progress tracker (SpecTracker)
MaxTotal == 24

Modes == {"3D", "2D", "2D_GRID"}
\* lengths of the position dataset the server may hold
DatasetLengths == {40, 230}
\* values the spacing slider may deliver, in tenths
SpacingValues == {1, 5, 20}

VARIABLES
    numFiles,           \* environment: number of montage files on the server
    dataLen,            \* environment: records in each dataset file
    currentMode,
    is3D,
    imagePositions,
    spaceBetweenTiles,
    montageFilePaths,
    scene,              \* scene.children
    axesHelper,         \* TRUE when the variable holds an AxesHelper
    showAxis,
    needsUpdate,
    camera,             \* camera.position
    controls,           \* [defined, minPolarAngle, maxPolarAngle]
    animating,          \* animate() has been started
    totalAssetsToLoad,
    assetsLoaded,
    uiBound,            \* loadingOverlay / loadingMessage hold their elements
    overlayDisplay,     \* loadingOverlay.style.display
    loadingMessage,     \* the percentage in loadingMessage.textContent
    hideTimers,         \* pending setTimeout callbacks of updateLoadingProgress
    cycles,             \* the calls of init / switchVisualizationMode
    nextId,             \* history: identity of the next Mesh created
    events,             \* history: disturbances so far
    spacingChanges,     \* history: inputs on the spacing slider so far
    drawn               \* history: what the last call of animate() did

vars == <<numFiles, dataLen, currentMode, is3D, imagePositions,
          spaceBetweenTiles, montageFilePaths, scene, axesHelper, showAxis,
          needsUpdate, camera, controls, animating,
          totalAssetsToLoad, assetsLoaded, uiBound, overlayDisplay,
          loadingMessage, hideTimers, cycles, nextId, events, spacingChanges,
          drawn>>

envVars == <<numFiles, dataLen, spacingChanges>>

(* ---- helpers ---------------------------------------------------------- *)
Min(a, b) == IF a < b THEN a ELSE b

Meshes(s) == {i \in 1..Len(s) : s[i].type = "Mesh"}

TileIds(s) == {s[i].id : i \in Meshes(s)}

TilePlacement(s) == {<<s[i].d, s[i].pos>> : i \in Meshes(s)}

\* history fields of a cycle record set when its function returns
Ended(cy, s) ==
    [cy EXCEPT !.placed = TilePlacement(s), !.count = Cardinality(Meshes(s)),
               !.stamp = spacingChanges]

\* the calls that will still run code: not returned, and not suspended for
\* ever on a promise that is never settled
InFlight == {c \in 1..Len(cycles) : cycles[c].pc \notin {"done", "failed", "hung"}}

(* ---- the position dataset files (external data, §6 of the spec) ------- *)
\* record d (0-based) of the dataset file of a mode
RecordOf(mode, d) ==
    IF mode = "3D" THEN [x |-> d % 15, y |-> d \div 15, z |-> 1 + (d % 7)]
    ELSE IF mode = "2D" THEN [x |-> (d % 15) - 7, y |-> 7 - (d \div 15), z |-> 3]
    ELSE [x |-> d % 20, y |-> 0 - (d \div 20), z |-> 5]

\* JSON.parse(data) of the file of a mode
DatasetFile(mode, len) == [k \in 1..len |-> RecordOf(mode, k - 1)]

(* ---- updateLoadingProgress -------------------------------------------- *)
\* Math.round((loaded / total) * 100), 0 when total is 0
PercentageStale(loaded, total) ==
    IF total > 0 THEN (200 * (loaded - 1) + total) \div (2 * total) ELSE 0

Percentage(loaded, total) ==
    IF total > 0 THEN (200 * loaded + total) \div (2 * total) ELSE 0

UpdateLoadingProgressNoCount ==
    /\ assetsLoaded' = assetsLoaded
    /\ loadingMessage' = IF uiBound
                         THEN Percentage(assetsLoaded, totalAssetsToLoad)
                         ELSE loadingMessage
    /\ hideTimers' = IF assetsLoaded >= totalAssetsToLoad /\ uiBound
                     THEN hideTimers + 1 ELSE hideTimers

UpdateLoadingProgressTwice ==
    /\ assetsLoaded' = assetsLoaded + 2
    /\ loadingMessage' = IF uiBound
                         THEN Percentage(assetsLoaded + 2, totalAssetsToLoad)
                         ELSE loadingMessage
    /\ hideTimers' = IF assetsLoaded + 2 >= totalAssetsToLoad /\ uiBound
                     THEN hideTimers + 1 ELSE hideTimers

UpdateLoadingProgress ==
    /\ assetsLoaded' = assetsLoaded + 1
    /\ loadingMessage' = IF uiBound
                         THEN Percentage(assetsLoaded + 1, totalAssetsToLoad)
                         ELSE loadingMessage
    /\ hideTimers' = IF assetsLoaded + 1 >= totalAssetsToLoad /\ uiBound
                     THEN hideTimers + 1 ELSE hideTimers

(* ---- createPlane / getChunkedTexture / layout ------------------------- *)
EffectiveSpaceMultiplierNoGrid(mode, spacing) == spacing

EffectiveSpaceMultiplier(mode, spacing) ==
    IF mode = "2D_GRID" THEN gridMultiplier ELSE spacing

\* the position createAndRenderPlanes gives a new tile
PlacePosition(rec, mode, spacing) ==
    LET m == EffectiveSpaceMultiplier(mode, spacing)
    IN  <<rec.x * m, rec.y * m, IF mode = "3D" THEN rec.z * m ELSE 0>>

\* the position updatePlanePositions gives a tile
RepositionPosition(rec, mode, spacing) ==
    LET m == EffectiveSpaceMultiplier(mode, spacing)
    IN  <<rec.x * m * scalar_, rec.y * m * scalar_,
          IF mode = "3D" THEN rec.z * m * scalar_ ELSE 0>>

\* getChunkedTexture(image, x, y): side of the square cut from the montage
ChunkSize == montageTileResolution

\* source rectangle origin of in-file tile index i
ChunkOriginTransposed(i, planesPerRow) ==
    <<(i \div planesPerRow) * montageTileResolution,
      (i % planesPerRow) * montageTileResolution>>

ChunkOrigin(i, planesPerRow) ==
    <<(i % planesPerRow) * montageTileResolution,
      (i \div planesPerRow) * montageTileResolution>>

AxesObject ==
    [type |-> "AxesHelper", id |-> 0, pos |-> <<0, 0, 0>>, file |-> 0,
     origin |-> <<0, 0>>, size |-> 0, slot |-> 0, d |-> 0, fpos |-> 0,
     cyc |-> 0]

\* Math.min(imagePositions.length - imagePositionOffset, maxTilesInThisMontageFile)
ImagesToProcessNoCap(len, offset, planesPerRow) ==
    len - offset

ImagesToProcess(len, offset, planesPerRow) ==
    Min(len - offset, planesPerRow * montageTilesY)

\* the tiles the for loop of createAndRenderPlanes creates: i = 0 .. n-1, cut
\* short by the dataIndex >= imagePositions.length guard
CreatedCount(n, offset, len) ==
    IF n <= 0 THEN 0
    ELSE IF offset + n <= len THEN n
    ELSE IF len > offset THEN len - offset ELSE 0

\* the dataset index the loop reads for in-file tile index i
DataIndex(offset, i) == offset + i

NewTiles(c, file, fpos, offset, n, planesPerRow) ==
    [k \in 1..CreatedCount(n, offset, Len(imagePositions)) |->
        LET i == k - 1
            dataIndex == DataIndex(offset, i)
        IN  [type |-> "Mesh", id |-> nextId + i,
             pos |-> PlacePosition(imagePositions[dataIndex + 1], currentMode,
                                   spaceBetweenTiles),
             file |-> file, origin |-> ChunkOrigin(i, planesPerRow),
             size |-> ChunkSize,
             slot |-> i, d |-> dataIndex, fpos |-> fpos, cyc |-> c]]

\* scene.children after updateAxesHelper()
AxesUpdatedScene(s) ==
    IF showAxis
    THEN IF ~axesHelper THEN Append(s, AxesObject) ELSE s
    ELSE IF axesHelper THEN SelectSeq(s, LAMBDA o : o.type # "AxesHelper") ELSE s

AxesUpdatedHelper == showAxis

\* scene.children.filter(child => !(child instanceof THREE.Mesh))
NonMeshObjects(s) == SelectSeq(s, LAMBDA o : o.type # "Mesh")

\* the index updatePlanePositions reads imagePositions at, for the child at
\* (0-based) position index of scene.children
RepositionIndex(index, child) == index

\* scene.children after updatePlanePositions()
RepositionedSceneMeshesOnly(s, spacing) ==
    SelectSeq(s, LAMBDA o : o.type = "Mesh")

RepositionedScene(s, spacing) ==
    [k \in 1..Len(s) |->
        LET index == RepositionIndex(k - 1, s[k])
        IN  IF s[k].type = "Mesh" /\ index < Len(imagePositions)
            THEN [s[k] EXCEPT !.pos =
                    RepositionPosition(imagePositions[index + 1], currentMode, spacing)]
            ELSE s[k]]

(* ---- camera and controls ---------------------------------------------- *)
InitialCamera == <<4, 0 - 25, 25>>

TopDownCamera == <<0, 0, 50>>

\* positions the user can bring the camera to with the orbit controls
CameraPositions == {<<20, 20, 20>>}

\* controls.maxPolarAngle a completed switch sets for a mode
MaxPolarAngleForFullSphere(mode) == "PI"

MaxPolarAngleFor(mode) == IF mode = "3D" THEN "PI" ELSE "PI/2"

(* ---- discoverMontageFiles --------------------------------------------- *)
\* the catch block: TRUE when the loop breaks after probe i failed
BreaksAtFirstFailure(i, discovered) == TRUE

BreaksAfterFailure(i, discovered) ==
    \/ i > 0 /\ Len(discovered) = 0
    \/ i > Len(discovered) + 2

\* one iteration of the for loop: probe i ended with ok
DiscoveryStepKeepFailed(i, discovered, ok) ==
    LET found == Append(discovered, i)
        brk == ~ok /\ BreaksAfterFailure(i, discovered)
    IN  [i |-> i + 1, discovered |-> found,
         finished |-> brk \/ i + 1 >= maxAttempts]

DiscoveryStep(i, discovered, ok) ==
    LET found == IF ok THEN Append(discovered, i) ELSE discovered
        brk == ~ok /\ BreaksAfterFailure(i, discovered)
    IN  [i |-> i + 1, discovered |-> found,
         finished |-> brk \/ i + 1 >= maxAttempts]

(* ---- switchVisualizationMode ------------------------------------------ *)
\* the mode the toggle button steps to
NextModeStuck(mode) == mode

NextMode(mode) ==
    IF mode = "3D" THEN "2D"
    ELSE IF mode = "2D" THEN "2D_GRID"
    ELSE "3D"

\* is3D as the handler sets it for the new currentMode
Is3DAlways(mode) == TRUE

Is3DFor(mode) == mode = "3D"

\* scene.children after the handler's clearing statement
ClearedSceneKeepAll(s) == s

ClearedSceneDropAll(s) == <<>>

ClearedSceneKeepMeshes(s) == SelectSeq(s, LAMBDA o : o.type = "Mesh")

ClearedScene(s) == NonMeshObjects(s)

\* totalAssetsToLoad as the reset at the start of a load cycle sets it
ResetTotalNoDataset(discovered) == Len(discovered)

ResetTotal(discovered) == 1 + Len(discovered)

(* ---- processes -------------------------------------------------------- *)
Cycle(kind, alone, before, modeBefore) ==
    [kind |-> kind, pc |-> "probe", i |-> 0, discovered |-> <<>>,
     jsonMode |-> "none", files |-> <<>>, k |-> 0, offset |-> 0,
     cam |-> <<0, 0, 0>>,
     \* history, read by no action:
     alone |-> alone,                  \* no other cycle was in flight with it
     before |-> before,                \* the tiles in the scene at the request
     modeBefore |-> modeBefore,        \* currentMode at the request
     probes |-> <<>>,                  \* outcome of each discovery probe
     shown |-> FALSE,                  \* it has shown the loading overlay
     results |-> <<>>,                 \* outcome of each montage load
     cause |-> "none",                 \* why it failed
     placed |-> {},                    \* <<dataset index, position>> of the
                                       \* tiles in the scene when it ended
     count |-> 0,                      \* number of tiles in the scene then
     stamp |-> 0]                      \* spacing inputs before it ended

NewCycle(kind) == Cycle(kind, InFlight = {}, TileIds(scene), currentMode)

Init ==
    /\ numFiles \in 0..MaxFiles
    /\ dataLen \in DatasetLengths
    /\ currentMode = "3D"
    /\ is3D = TRUE
    /\ imagePositions = <<>>
    /\ spaceBetweenTiles = initialSpaceBetweenTiles
    /\ montageFilePaths = <<>>
    /\ scene = <<>>
    /\ axesHelper = FALSE
    /\ showAxis = TRUE
    /\ needsUpdate = TRUE
    /\ camera = InitialCamera
    /\ controls = [defined |-> FALSE, minPolarAngle |-> 0, maxPolarAngle |-> "PI"]
    /\ animating = FALSE
    /\ totalAssetsToLoad = 0
    /\ assetsLoaded = 0
    /\ uiBound = FALSE
    /\ overlayDisplay = "initial"
    /\ loadingMessage = 0
    /\ hideTimers = 0
    /\ cycles = <<Cycle("init", TRUE, {}, "3D")>>
    /\ nextId = 1
    /\ events = 0
    /\ spacingChanges = 0
    /\ drawn = "none"

\* a load of an asset that exists may fail while the failure budget lasts
LoadOutcome(exists, ok) ==
    /\ ok => exists
    /\ (~ok /\ exists) => events < MaxEvents
    /\ events' = IF ~ok /\ exists THEN events + 1 ELSE events

\* discoverMontageFiles: a probe ends and the loop goes on
Probe(c, ok) ==
    LET cy == cycles[c]
        st == DiscoveryStep(cy.i, cy.discovered, ok)
    IN  /\ cy.pc = "probe"
        /\ LoadOutcome(cy.i < numFiles, ok)
        /\ ~st.finished
        /\ cycles' = [cycles EXCEPT ![c].i = st.i, ![c].discovered = st.discovered,
                                    ![c].probes = Append(cy.probes, ok)]
        /\ UNCHANGED <<envVars, drawn, currentMode, is3D, imagePositions, spaceBetweenTiles,
                       montageFilePaths, scene, axesHelper, showAxis, needsUpdate,
                       camera, controls, animating, totalAssetsToLoad,
                       assetsLoaded, uiBound, overlayDisplay, loadingMessage,
                       hideTimers, nextId>>

\* init(): the last probe ends, discovery returns, the loading screen is set
\* up and loadVisualizationData() is started
InitDiscovered(c, ok) ==
    LET cy == cycles[c]
        st == DiscoveryStep(cy.i, cy.discovered, ok)
    IN  /\ cy.pc = "probe" /\ cy.kind = "init"
        /\ LoadOutcome(cy.i < numFiles, ok)
        /\ st.finished
        /\ montageFilePaths' = st.discovered
        /\ uiBound' = TRUE
        /\ assetsLoaded' = 0
        /\ totalAssetsToLoad' = ResetTotal(st.discovered)
        /\ overlayDisplay' = "flex"
        /\ loadingMessage' = 0
        /\ cycles' = [cycles EXCEPT ![c] =
               [cy EXCEPT !.pc = "dataset", !.i = st.i, !.discovered = st.discovered,
                          !.probes = Append(cy.probes, ok), !.shown = TRUE,
                          !.jsonMode = currentMode]]
        /\ UNCHANGED <<envVars, drawn, currentMode, is3D, imagePositions, spaceBetweenTiles,
                       scene, axesHelper, showAxis, needsUpdate, camera, controls,
                       animating, hideTimers, nextId>>

\* switchVisualizationMode(): the last probe ends, discovery returns; the
\* handler resets progress, sets currentMode, captures the camera, clears the
\* meshes, sets is3D and starts loadVisualizationData()
SwitchDiscovered(c, ok) ==
    LET cy == cycles[c]
        st == DiscoveryStep(cy.i, cy.discovered, ok)
        target == NextMode(currentMode)
    IN  /\ cy.pc = "probe" /\ cy.kind = "switch"
        /\ LoadOutcome(cy.i < numFiles, ok)
        /\ st.finished
        /\ montageFilePaths' = st.discovered
        /\ overlayDisplay' = IF uiBound THEN "flex" ELSE overlayDisplay
        /\ assetsLoaded' = 0
        /\ totalAssetsToLoad' = ResetTotal(st.discovered)
        /\ loadingMessage' = IF uiBound THEN 0 ELSE loadingMessage
        /\ currentMode' = target
        /\ scene' = ClearedScene(scene)
        /\ is3D' = Is3DFor(target)
        /\ cycles' = [cycles EXCEPT ![c] =
               [cy EXCEPT !.pc = "dataset", !.i = st.i, !.discovered = st.discovered,
                          !.probes = Append(cy.probes, ok), !.shown = uiBound,
                          !.cam = camera, !.jsonMode = target]]
        /\ UNCHANGED <<envVars, drawn, imagePositions, spaceBetweenTiles, axesHelper,
                       showAxis, needsUpdate, camera, controls, animating,
                       uiBound, hideTimers, nextId>>

\* what runs after the for loop over the montage files.  init(): initControls()
\* and animate(), whose first frame renders (controls.enabled).
\* switchVisualizationMode(): the camera
\* is set, then "controls.minPolarAngle = 0" throws when initControls() never
\* ran, which the catch block turns into a failed switch.  nu is needsUpdate
\* as the loop left it.
AfterLoop(cy, nu) ==
    IF cy.kind = "init"
    THEN [pc |-> "done", cause |-> "none", camera |-> camera,
          controls |-> [defined |-> TRUE, minPolarAngle |-> 0, maxPolarAngle |-> "PI"],
          animating |-> TRUE, needsUpdate |-> FALSE,
          drawn |-> IF nu THEN "dirty" ELSE "clean",
          overlayDisplay |-> overlayDisplay]
    ELSE LET cam == IF currentMode = "3D" THEN cy.cam ELSE TopDownCamera
         IN  IF ~controls.defined
             THEN [pc |-> "failed", cause |-> "controls", camera |-> cam,
                   controls |-> controls, animating |-> animating,
                   needsUpdate |-> nu, drawn |-> drawn,
                   overlayDisplay |-> IF uiBound THEN "none" ELSE overlayDisplay]
             ELSE [pc |-> "done", cause |-> "none", camera |-> cam,
                   controls |-> [defined |-> TRUE, minPolarAngle |-> 0,
                                 maxPolarAngle |-> MaxPolarAngleFor(currentMode)],
                   animating |-> animating, drawn |-> drawn,
                   needsUpdate |-> TRUE, overlayDisplay |-> overlayDisplay]

\* loadVisualizationData(): the FileLoader's onLoad callback runs, then the
\* caller goes on to the first montage file, or past the loop when
\* montageFilePaths is empty
DatasetLoaded(c) ==
    LET cy == cycles[c]
        files == montageFilePaths
        t == AfterLoop(cy, needsUpdate)
        cy1 == cy
    IN  /\ cy.pc = "dataset"
        /\ events' = events
        /\ imagePositions' = DatasetFile(cy.jsonMode, dataLen)
        /\ UpdateLoadingProgress
        /\ IF files # <<>>
           THEN /\ cycles' = [cycles EXCEPT ![c] =
                       [cy1 EXCEPT !.pc = "montage", !.files = files, !.k = 1,
                                   !.offset = 0]]
                /\ UNCHANGED <<camera, controls, animating, needsUpdate,
                               overlayDisplay, drawn>>
           ELSE /\ cycles' = [cycles EXCEPT ![c] =
                       Ended([cy1 EXCEPT !.pc = t.pc, !.cause = t.cause,
                                          !.files = files], scene)]
                /\ camera' = t.camera
                /\ controls' = t.controls
                /\ animating' = t.animating
                /\ needsUpdate' = t.needsUpdate
                /\ overlayDisplay' = t.overlayDisplay
                /\ drawn' = t.drawn
        /\ UNCHANGED <<envVars, currentMode, is3D, spaceBetweenTiles,
                       montageFilePaths, scene, axesHelper, showAxis,
                       totalAssetsToLoad, uiBound, nextId>>

\* loadVisualizationData(): the FileLoader's onError callback runs, the
\* promise is rejected and the caller's catch block hides the overlay
DatasetFailed(c) ==
    LET cy == cycles[c]
    IN  /\ cy.pc = "dataset"
        /\ events < MaxEvents
        /\ events' = events + 1
        /\ UpdateLoadingProgress
        /\ overlayDisplay' = IF uiBound THEN "none" ELSE overlayDisplay
        /\ cycles' = [cycles EXCEPT ![c] =
               Ended([cy EXCEPT !.pc = "failed", !.cause = "dataset"], scene)]
        /\ UNCHANGED <<envVars, drawn, currentMode, is3D, imagePositions,
                       spaceBetweenTiles, montageFilePaths, scene, axesHelper,
                       showAxis, needsUpdate, camera, controls, animating,
                       totalAssetsToLoad, uiBound, nextId>>

\* loadVisualizationData(): the file is fetched and the FileLoader's onLoad
\* callback runs, but JSON.parse(data) throws: the assignment, the call of
\* updateLoadingProgress() and resolve() are skipped.  The callback has no
\* try/catch, so what follows is the loader's business: either it hands the
\* exception to the onError callback (caught), which counts the asset and
\* rejects, or the exception is left uncaught and the promise is never
\* settled: the caller stays suspended at its await.
DatasetUnparsable(c, caught) ==
    LET cy == cycles[c]
    IN  /\ cy.pc = "dataset"
        /\ events < MaxEvents
        /\ events' = events + 1
        /\ IF caught
           THEN /\ UpdateLoadingProgress
                /\ overlayDisplay' = IF uiBound THEN "none" ELSE overlayDisplay
                /\ cycles' = [cycles EXCEPT ![c] =
                       Ended([cy EXCEPT !.pc = "failed", !.cause = "parse"], scene)]
           ELSE /\ cycles' = [cycles EXCEPT ![c] =
                       Ended([cy EXCEPT !.pc = "hung", !.cause = "parse"], scene)]
                /\ UNCHANGED <<assetsLoaded, loadingMessage, hideTimers,
                               overlayDisplay>>
        /\ UNCHANGED <<envVars, drawn, currentMode, is3D, imagePositions,
                       spaceBetweenTiles, montageFilePaths, scene, axesHelper,
                       showAxis, needsUpdate, camera, controls, animating,
                       totalAssetsToLoad, uiBound, nextId>>

\* the value createAndRenderPlanes returns after a successful load
RenderedCount(n) == IF n <= 0 THEN 0 ELSE n

\* the offset the caller passes to the next file
NextOffsetBySlots(offset, renderedCount) ==
    offset + montageTilesX * montageTilesY

NextOffset(offset, renderedCount) == offset + renderedCount

\* createAndRenderPlanes(filePath, montageTilesX, accumulatedImageOffset): the
\* load of the montage image ends; on success the tiles are cut and placed;
\* the caller adds the returned count to the offset and goes on to the next
\* file, or past the loop
MontageLoaded(c, ok) ==
    LET cy == cycles[c]
        file == cy.files[cy.k]
        n == ImagesToProcess(Len(imagePositions), cy.offset, montageTilesX)
        renders == ok /\ n > 0
        tiles == IF renders
                 THEN NewTiles(c, file, cy.k - 1, cy.offset, n, montageTilesX)
                 ELSE <<>>
        scene1 == IF renders THEN AxesUpdatedScene(scene \o tiles) ELSE scene
        nu == IF renders THEN TRUE ELSE needsUpdate
        renderedCount == IF ok THEN RenderedCount(n) ELSE 0
        last == cy.k = Len(cy.files)
        t == AfterLoop(cy, nu)
        cy1 == [cy EXCEPT !.offset = NextOffset(cy.offset, renderedCount),
                          !.results = Append(cy.results, ok)]
    IN  /\ cy.pc = "montage"
        /\ LoadOutcome(TRUE, ok)
        /\ UpdateLoadingProgress
        /\ scene' = scene1
        /\ axesHelper' = IF renders THEN AxesUpdatedHelper ELSE axesHelper
        /\ nextId' = nextId + Len(tiles)
        /\ IF ~last
           THEN /\ cycles' = [cycles EXCEPT ![c] = [cy1 EXCEPT !.k = cy.k + 1]]
                /\ needsUpdate' = nu
                /\ UNCHANGED <<camera, controls, animating, overlayDisplay,
                               drawn>>
           ELSE /\ cycles' = [cycles EXCEPT ![c] =
                       Ended([cy1 EXCEPT !.pc = t.pc, !.cause = t.cause], scene1)]
                /\ camera' = t.camera
                /\ controls' = t.controls
                /\ animating' = t.animating
                /\ needsUpdate' = t.needsUpdate
                /\ overlayDisplay' = t.overlayDisplay
                /\ drawn' = t.drawn
        /\ UNCHANGED <<envVars, currentMode, is3D, imagePositions,
                       spaceBetweenTiles, montageFilePaths, showAxis,
                       totalAssetsToLoad, uiBound>>

\* the setTimeout callback of updateLoadingProgress
HideTimerFires ==
    /\ hideTimers > 0
    /\ hideTimers' = hideTimers - 1
    /\ overlayDisplay' = "none"
    /\ UNCHANGED <<envVars, drawn, currentMode, is3D, imagePositions, spaceBetweenTiles,
                   montageFilePaths, scene, axesHelper, showAxis, needsUpdate,
                   camera, controls, animating, totalAssetsToLoad,
                   assetsLoaded, uiBound, loadingMessage, cycles, nextId, events>>

\* a mode switch is requested: switchVisualizationMode runs up to its first
\* await (the first probe of discoverMontageFiles)
StartSwitchCancelling ==
    /\ Len(cycles) < MaxCycles
    /\ InFlight # {} => events < MaxEvents
    /\ events' = IF InFlight # {} THEN events + 1 ELSE events
    /\ cycles' = Append([c \in 1..Len(cycles) |->
                            IF c \in InFlight
                            THEN [cycles[c] EXCEPT !.alone = FALSE, !.pc = "failed"]
                            ELSE cycles[c]],
                        NewCycle("switch"))
    /\ UNCHANGED <<envVars, drawn, currentMode, is3D, imagePositions, spaceBetweenTiles,
                   montageFilePaths, scene, axesHelper, showAxis, needsUpdate,
                   camera, controls, animating, totalAssetsToLoad, assetsLoaded,
                   uiBound, overlayDisplay, loadingMessage, hideTimers, nextId>>

StartSwitch ==
    /\ Len(cycles) < MaxCycles
    /\ InFlight # {} => events < MaxEvents
    /\ events' = IF InFlight # {} THEN events + 1 ELSE events
    /\ cycles' = Append([c \in 1..Len(cycles) |->
                            IF c \in InFlight
                            THEN [cycles[c] EXCEPT !.alone = FALSE]
                            ELSE cycles[c]],
                        NewCycle("switch"))
    /\ UNCHANGED <<envVars, drawn, currentMode, is3D, imagePositions, spaceBetweenTiles,
                   montageFilePaths, scene, axesHelper, showAxis, needsUpdate,
                   camera, controls, animating, totalAssetsToLoad, assetsLoaded,
                   uiBound, overlayDisplay, loadingMessage, hideTimers, nextId>>

\* click on toggle2D3DButton (part_000); the listener is registered before
\* init() is called
ToggleClick == StartSwitch

\* input on spaceBetweenTilesSlider: updateSpaceBetweenTiles()
SpacingInput(value) ==
    /\ events < MaxEvents
    /\ events' = events + 1
    /\ spaceBetweenTiles' = value
    /\ spacingChanges' = spacingChanges + 1
    /\ scene' = RepositionedScene(scene, value)
    /\ needsUpdate' = TRUE
    /\ UNCHANGED <<numFiles, dataLen, drawn, currentMode, is3D, imagePositions,
                   montageFilePaths,
                   axesHelper, showAxis, camera, controls, animating,
                   totalAssetsToLoad, assetsLoaded, uiBound, overlayDisplay,
                   loadingMessage, hideTimers, cycles, nextId>>

\* change of toggleAxesCheckbox: showAxis is set and updateAxesHelper() runs
AxesChange(checked) ==
    /\ events < MaxEvents
    /\ events' = events + 1
    /\ showAxis' = checked
    /\ scene' = IF checked
                THEN IF ~axesHelper THEN Append(scene, AxesObject) ELSE scene
                ELSE IF axesHelper
                     THEN SelectSeq(scene, LAMBDA o : o.type # "AxesHelper")
                     ELSE scene
    /\ axesHelper' = checked
    /\ needsUpdate' = TRUE
    /\ UNCHANGED <<envVars, drawn, currentMode, is3D, imagePositions, spaceBetweenTiles,
                   montageFilePaths, camera, controls, animating,
                   totalAssetsToLoad, assetsLoaded, uiBound, overlayDisplay,
                   loadingMessage, hideTimers, cycles, nextId>>

\* the user drags the view: the OrbitControls created by initControls() move
\* the camera
CameraMove(position) ==
    /\ controls.defined
    /\ events < MaxEvents
    /\ events' = events + 1
    /\ camera' = position
    /\ UNCHANGED <<envVars, drawn, currentMode, is3D, imagePositions, spaceBetweenTiles,
                   montageFilePaths, scene, axesHelper, showAxis, needsUpdate,
                   controls, animating, totalAssetsToLoad, assetsLoaded, uiBound,
                   overlayDisplay, loadingMessage, hideTimers, cycles, nextId>>

\* animate(): one animation frame.  The scene is drawn when needsUpdate is set
\* or the orbit controls exist and are enabled (controls.enabled is never
\* cleared), and the draw clears needsUpdate
AnimationFrame ==
    LET draws == needsUpdate \/ controls.defined
    IN  /\ animating
        /\ needsUpdate' = IF draws THEN FALSE ELSE needsUpdate
        /\ drawn' = IF ~draws THEN "idle"
                    ELSE IF needsUpdate THEN "dirty" ELSE "clean"
        /\ UNCHANGED <<envVars, currentMode, is3D, imagePositions,
                       spaceBetweenTiles, montageFilePaths, scene, axesHelper,
                       showAxis, camera, controls, animating, totalAssetsToLoad,
                       assetsLoaded, uiBound, overlayDisplay, loadingMessage,
                       hideTimers, cycles, nextId, events>>

\* an animation frame that finds needsUpdate set.  The other frames change no
\* variable of the program; only NextFrames has them.
DirtyFrame == needsUpdate /\ AnimationFrame

Next ==
    \/ \E c \in 1..Len(cycles), ok \in BOOLEAN : Probe(c, ok)
    \/ \E c \in 1..Len(cycles), ok \in BOOLEAN : InitDiscovered(c, ok)
    \/ \E c \in 1..Len(cycles), ok \in BOOLEAN : SwitchDiscovered(c, ok)
    \/ \E c \in 1..Len(cycles) : DatasetLoaded(c)
    \/ \E c \in 1..Len(cycles) : DatasetFailed(c)
    \/ \E c \in 1..Len(cycles), caught \in BOOLEAN : DatasetUnparsable(c, caught)
    \/ \E c \in 1..Len(cycles), ok \in BOOLEAN : MontageLoaded(c, ok)
    \/ HideTimerFires
    \/ ToggleClick
    \/ \E value \in SpacingValues : SpacingInput(value)
    \/ \E checked \in BOOLEAN : AxesChange(checked)
    \/ \E position \in CameraPositions : CameraMove(position)
    \/ DirtyFrame

Spec == Init /\ [][Next]_vars

\* the program with every animation frame, on a server with at most one
\* montage file and 40 records
InitFrames == Init /\ numFiles <= 1 /\ dataLen = 40

NextFrames == Next \/ AnimationFrame

SpecFrames == InitFrames /\ [][NextFrames]_vars

(* ====================================================================== *)
(* Properties                                                             *)
(* ====================================================================== *)
TilesPerFile == montageTilesX * montageTilesY

\* montage loads of a cycle that succeeded during placement
LoadedFiles(cy) == Cardinality({k \in 1..Len(cy.results) : cy.results[k]})

\* cycle c ran alone, returned normally, and no later cycle was requested:
\* the scene is as c left it, but for spacing and axis events
CompletedAlone(c) ==
    /\ cycles[c].pc = "done"
    /\ cycles[c].alone
    /\ c = Len(cycles)

\* every tile was built from an index of the loaded dataset
TilesWithinDataset ==
    \A i \in Meshes(scene) : scene[i].d \in 0..(Len(imagePositions) - 1)

\* C1 as stated: after a load cycle that ran alone completes, with N montage
\* files discovered and M dataset records, the scene holds
\* min(M, N * montageTilesX * montageTilesY) tiles, each built from a dataset
\* index in 0..M-1.
C1_TileCountByDiscovered ==
    \A c \in 1..Len(cycles) :
        CompletedAlone(c) =>
            /\ Cardinality(Meshes(scene)) =
                   Min(Len(imagePositions), Len(cycles[c].discovered) * TilesPerFile)
            /\ TilesWithinDataset

\* C1 amended: after a load cycle that ran alone completes, with M dataset
\* records and L the number of discovered montage files whose load succeeded
\* during placement, the scene holds min(M, L * montageTilesX * montageTilesY)
\* tiles, each built from a dataset index in 0..M-1.
C1_TileCountByLoaded ==
    \A c \in 1..Len(cycles) :
        CompletedAlone(c) =>
            /\ Cardinality(Meshes(scene)) =
                   Min(Len(imagePositions), LoadedFiles(cycles[c]) * TilesPerFile)
            /\ TilesWithinDataset

\* a cycle that ran alone completed although one of two discovered files failed
\* to load, and the file that loaded filled all its slots
C1_Witness ==
    \E c \in 1..Len(cycles) :
        /\ CompletedAlone(c)
        /\ Len(cycles[c].discovered) = 2
        /\ LoadedFiles(cycles[c]) = 1
        /\ Cardinality(Meshes(scene)) = TilesPerFile
        /\ Len(imagePositions) > TilesPerFile

\* switch cycle c ran alone and ended in its catch block; no later cycle was
\* requested
FailedAlone(c) ==
    /\ cycles[c].kind = "switch"
    /\ cycles[c].pc = "failed"
    /\ cycles[c].alone
    /\ c = Len(cycles)

\* C2: if the dataset load fails during a mode switch, the tiles in the scene
\* after the failed switch are exactly the tiles that were there when the
\* switch was requested.
C2_TilesKeptOnDatasetFailure ==
    \A c \in 1..Len(cycles) :
        (FailedAlone(c) /\ cycles[c].cause = "dataset") =>
            TileIds(scene) = cycles[c].before

\* C3: if a step of a mode switch fails, currentMode after the failed switch
\* is currentMode as it was when the switch was requested.
C3_ModeKeptOnFailure ==
    \A c \in 1..Len(cycles) :
        FailedAlone(c) => currentMode = cycles[c].modeBefore

\* the step removes tiles from the scene
TilesRemoved == TileIds(scene) \ TileIds(scene') # {}

\* the step is the successful end of the dataset load of a switch cycle (or a
\* later step of a cycle whose dataset has loaded)
DatasetKnownGood(c) ==
    /\ cycles[c].kind = "switch"
    /\ cycles[c].pc \in {"dataset", "montage"}
    /\ cycles'[c].pc \in {"montage", "done"}

\* C4: within a mode switch, discovery, dataset load, clearing of the old
\* tiles and placement happen in this order; in particular tiles are removed
\* from the scene only by a switch whose dataset load has succeeded.
C4_ClearOnlyAfterDatasetLoaded ==
    [][TilesRemoved => \E c \in 1..Len(cycles) : DatasetKnownGood(c)]_vars

\* the step in which switch cycle c starts the load of the new dataset
StartsDatasetLoad(c) ==
    /\ cycles[c].kind = "switch"
    /\ cycles[c].pc = "probe"
    /\ cycles'[c].pc = "dataset"

\* C5: in every mode switch the existing tiles are removed before the load of
\* the new mode's dataset is started: when the handler starts that load (in
\* the step in which discovery returns) no tile is left in the scene, and no
\* tile that was there at the request is in the scene while the load is
\* pending.
C5_ClearedBeforeDatasetLoad ==
    /\ [][\A c \in 1..Len(cycles) :
            StartsDatasetLoad(c) => Meshes(scene') = {}]_vars
    /\ [](\A c \in 1..Len(cycles) :
            (cycles[c].kind = "switch" /\ cycles[c].pc = "dataset") =>
                TileIds(scene) \cap cycles[c].before = {})

\* a switch waits for its dataset, and the tiles shown at the request are gone
C5_Witness ==
    \E c \in 1..Len(cycles) :
        /\ cycles[c].kind = "switch"
        /\ cycles[c].pc = "dataset"
        /\ cycles[c].before # {}
        /\ Meshes(scene) = {}

\* C6: every tile cut from slot s of the f-th discovered montage file is
\* positioned from dataset record f * (montageTilesX * montageTilesY) + s,
\* also when an earlier montage file failed to load during placement.
C6_TileRecordByFileAndSlot ==
    \A i \in Meshes(scene) :
        scene[i].d = scene[i].fpos * TilesPerFile + scene[i].slot

\* the step is an input on the spacing slider
SpacingInputStep == \E value \in SpacingValues : SpacingInput(value)

\* C7: after the spacing control is changed to s in mode m, every tile created
\* from dataset index d is at the position the layout rule gives for
\* (record d, m, s), whatever else is in the scene.
C7_RepositionByOwnRecord ==
    [][((\E c \in 1..Len(cycles) : CompletedAlone(c)) /\ SpacingInputStep) =>
            \A i \in Meshes(scene') :
                scene'[i].pos = PlacePosition(imagePositions[scene'[i].d + 1],
                                              currentMode, spaceBetweenTiles')]_vars

\* C8: while currentMode is 2D_GRID a change of the spacing control leaves the
\* position of every tile as it was.
C8_GridIgnoresSpacing ==
    [][((\E c \in 1..Len(cycles) : CompletedAlone(c)) /\ currentMode = "2D_GRID"
            /\ SpacingInputStep) =>
            \A i \in Meshes(scene) : scene'[i].pos = scene[i].pos]_vars

\* cycles c1 < c2 both ran alone to completion in the same mode, with the same
\* montage files discovered and loaded, and the spacing slider was not moved
\* between their ends
RoundTrip(c1, c2) ==
    /\ c1 < c2
    /\ cycles[c1].pc = "done" /\ cycles[c1].alone
    /\ cycles[c2].pc = "done" /\ cycles[c2].alone
    /\ cycles[c1].jsonMode = cycles[c2].jsonMode
    /\ cycles[c1].discovered = cycles[c2].discovered
    /\ cycles[c1].results = cycles[c2].results
    /\ cycles[c1].stamp = cycles[c2].stamp

\* C9: from a completed cycle in mode m, switching away and back to m (each
\* switch run to completion, same montage and dataset files, spacing slider
\* untouched) gives the same number of tiles and, for every dataset index,
\* the same tile position.
C9_RoundTripSameTiles ==
    \A c1, c2 \in 1..Len(cycles) :
        RoundTrip(c1, c2) =>
            /\ cycles[c2].count = cycles[c1].count
            /\ cycles[c2].placed = cycles[c1].placed

\* the mode was left and entered again, with tiles on both visits
C9_Witness ==
    \E c1, c2 \in 1..Len(cycles) :
        /\ RoundTrip(c1, c2)
        /\ c2 > c1 + 1
        /\ cycles[c1].count > 0
        /\ cycles[c2].placed # {}

(* ---- the progress tracker on its own ---------------------------------- *)
\* the tracker reset to (0, total), total in 1..MaxTotal, the loading
\* elements bound, no load cycle running
InitTracker ==
    /\ numFiles = 0
    /\ dataLen = 0
    /\ currentMode = "3D"
    /\ is3D = TRUE
    /\ imagePositions = <<>>
    /\ spaceBetweenTiles = initialSpaceBetweenTiles
    /\ montageFilePaths = <<>>
    /\ scene = <<>>
    /\ axesHelper = FALSE
    /\ showAxis = TRUE
    /\ needsUpdate = TRUE
    /\ camera = InitialCamera
    /\ controls = [defined |-> FALSE, minPolarAngle |-> 0, maxPolarAngle |-> "PI"]
    /\ animating = FALSE
    /\ totalAssetsToLoad \in 1..MaxTotal
    /\ assetsLoaded = 0
    /\ uiBound = TRUE
    /\ overlayDisplay = "flex"
    /\ loadingMessage = 0
    /\ hideTimers = 0
    /\ cycles = <<>>
    /\ nextId = 1
    /\ events = 0
    /\ spacingChanges = 0
    /\ drawn = "none"

\* one call of updateLoadingProgress()
TrackerTick ==
    /\ assetsLoaded < totalAssetsToLoad
    /\ UpdateLoadingProgress
    /\ UNCHANGED <<envVars, drawn, currentMode, is3D, imagePositions, spaceBetweenTiles,
                   montageFilePaths, scene, axesHelper, showAxis, needsUpdate,
                   camera, controls, animating, totalAssetsToLoad, uiBound,
                   overlayDisplay, cycles, nextId, events>>

SpecTracker == InitTracker /\ [][TrackerTick]_vars

\* C10: for a tracker reset to (0, total), total >= 1, the percentage reported
\* by successive updateLoadingProgress calls never decreases, and the
\* total-th call reports exactly 100.
C10_PercentMonotoneTo100 ==
    /\ [][loadingMessage' >= loadingMessage]_vars
    /\ [](assetsLoaded = totalAssetsToLoad => loadingMessage = 100)

\* the last of at least three calls has been made
C10_Witness ==
    /\ totalAssetsToLoad >= 3
    /\ assetsLoaded = totalAssetsToLoad
    /\ loadingMessage = 100

(* ---- progress accounting of the load cycles --------------------------- *)
\* C11: in every reachable state, also when a second mode switch is requested
\* while an earlier cycle is in flight, the reported percentage is an integer
\* in 0..100 and assetsLoaded does not exceed totalAssetsToLoad.
C11_ProgressWithinBounds ==
    /\ assetsLoaded <= totalAssetsToLoad
    /\ loadingMessage \in 0..100

\* the step in which discovery returns to cycle c and the cycle's progress is
\* reset
DiscoveryReturns(c) ==
    /\ cycles[c].pc = "probe"
    /\ cycles'[c].pc = "dataset"

\* C12: at the start of every load cycle (startup and mode switch), once
\* discovery has returned and before an asset of the cycle is counted,
\* assetsLoaded is 0 and totalAssetsToLoad is 1 + the number of montage files
\* the cycle discovered: the reset step leaves these values, and they stand
\* while a cycle that runs alone waits for its dataset.
C12_ResetAtCycleStart ==
    /\ [][\A c \in 1..Len(cycles) :
            DiscoveryReturns(c) =>
                /\ assetsLoaded' = 0
                /\ totalAssetsToLoad' = 1 + Len(cycles'[c].discovered)]_vars
    /\ [](\A c \in 1..Len(cycles) :
            (cycles[c].pc = "dataset" /\ cycles[c].alone) =>
                /\ assetsLoaded = 0
                /\ totalAssetsToLoad = 1 + Len(cycles[c].discovered))

\* a mode switch that found two montage files waits for its dataset after an
\* earlier cycle has counted its assets
C12_Witness ==
    \E c \in 1..Len(cycles) :
        /\ c > 1
        /\ cycles[c].pc = "dataset"
        /\ cycles[c].alone
        /\ cycles[c - 1].pc = "done"
        /\ Len(cycles[c].discovered) = 2
        /\ assetsLoaded = 0
        /\ totalAssetsToLoad = 3

\* cycle c runs alone, is the latest cycle, and its dataset has loaded
AloneAfterDataset(c) ==
    /\ cycles[c].alone
    /\ c = Len(cycles)
    /\ cycles[c].pc = "montage"

\* the step in which cycle c, whose dataset has loaded, ends
CompletesAfterDataset(c) ==
    /\ cycles[c].pc \in {"dataset", "montage"}
    /\ cycles'[c].pc \in {"done", "failed"}
    /\ cycles'[c].cause \notin {"dataset", "parse"}

\* C13: in a load cycle that runs alone and whose dataset load succeeds,
\* assetsLoaded is incremented once for the dataset and once for each
\* discovered montage file, loaded or failed (so it is 1 + the number of
\* montage loads ended so far), is never decremented during the cycle, and
\* equals totalAssetsToLoad when the cycle completes.
C13_OneTickPerAsset ==
    /\ [](\A c \in 1..Len(cycles) :
            AloneAfterDataset(c) => assetsLoaded = 1 + Len(cycles[c].results))
    /\ [][\A c \in 1..Len(cycles) :
            (cycles[c].alone /\ c = Len(cycles)
                /\ cycles[c].pc \in {"dataset", "montage"}) =>
                /\ assetsLoaded' >= assetsLoaded
                /\ (cycles[c].pc = "montage" /\ cycles'[c] # cycles[c]
                        /\ Len(cycles') = Len(cycles)) =>
                       assetsLoaded' = assetsLoaded + 1
                /\ (cycles[c].alone /\ CompletesAfterDataset(c)) =>
                       /\ assetsLoaded' = totalAssetsToLoad'
                       /\ assetsLoaded' = 1 + Len(cycles[c].discovered)]_vars

\* a cycle that ran alone has completed with two montage files discovered, one
\* of which failed to load, and all three assets are counted
C13_Witness ==
    \E c \in 1..Len(cycles) :
        /\ CompletedAlone(c)
        /\ Len(cycles[c].discovered) = 2
        /\ LoadedFiles(cycles[c]) = 1
        /\ assetsLoaded = 3
        /\ totalAssetsToLoad = 3

\* the step in which the call of loadVisualizationData made by cycle c ends:
\* the dataset loaded, the load failed, or the content could not be parsed
DatasetCallEnds(c) ==
    /\ cycles[c].pc = "dataset"
    /\ cycles'[c].pc # "dataset"

\* C14: every call of loadVisualizationData increments the progress counter
\* exactly once, whether the dataset file loads or the load fails.
C14_DatasetTicksOnce ==
    [][\A c \in 1..Len(cycles) :
            DatasetCallEnds(c) => assetsLoaded' = assetsLoaded + 1]_vars

\* the step in which the dataset file of cycle c is fetched but cannot be
\* parsed
UnparsableStep(c) ==
    /\ cycles[c].pc = "dataset"
    /\ cycles'[c].cause = "parse"

\* C15: if the dataset file is fetched but its content cannot be parsed,
\* loadVisualizationData fails, the load cycle is aborted as failed and the
\* loading indicator is retired; the cycle does not stay pending.
C15_UnparsableAbortsCycle ==
    [][\A c \in 1..Len(cycles) :
            UnparsableStep(c) =>
                /\ cycles'[c].pc = "failed"
                /\ uiBound => overlayDisplay' = "none"]_vars

\* the step in which a montage load of cycle c fails during placement
MontageFailsStep(c) ==
    /\ cycles[c].pc = "montage"
    /\ cycles'[c].results = Append(cycles[c].results, FALSE)

\* C16: when a discovered montage file fails to load during tile placement the
\* cycle does not fail: the file adds no tile (and removes none), progress is
\* incremented once, and the cycle goes on with the next montage file, or past
\* the loop after the last one.
C16_MontageFailureAbsorbed ==
    [][\A c \in 1..Len(cycles) :
            MontageFailsStep(c) =>
                /\ TileIds(scene') = TileIds(scene)
                /\ assetsLoaded' = assetsLoaded + 1
                /\ cycles'[c].offset = cycles[c].offset
                /\ IF cycles[c].k < Len(cycles[c].files)
                   THEN /\ cycles'[c].pc = "montage"
                        /\ cycles'[c].k = cycles[c].k + 1
                   ELSE \/ cycles'[c].pc = "done"
                        \/ cycles'[c].cause = "controls"]_vars

\* the first of two montage files failed to load, the second was placed and
\* the cycle completed
C16_Witness ==
    \E c \in 1..Len(cycles) :
        /\ cycles[c].pc = "done"
        /\ cycles[c].results = <<FALSE, TRUE>>
        /\ \E i \in Meshes(scene) : scene[i].cyc = c /\ scene[i].fpos = 1

\* the objects of scene.children that are no tiles, in their order
NonTiles(s) == SelectSeq(s, LAMBDA o : o.type = "AxesHelper")

\* C17: the tile-clearing step of a mode switch removes every tile (Mesh) from
\* the scene and keeps every other scene object that was there, in the same
\* relative order.
C17_ClearKeepsNonTiles ==
    [][\A c \in 1..Len(cycles) :
            (cycles[c].kind = "switch" /\ DiscoveryReturns(c)) =>
                /\ Meshes(scene') = {}
                /\ scene' = NonTiles(scene)]_vars

\* a switch has cleared a scene that held tiles, and the axes helper is still
\* there
C17_Witness ==
    \E c \in 1..Len(cycles) :
        /\ cycles[c].kind = "switch"
        /\ cycles[c].pc = "dataset"
        /\ cycles[c].before # {}
        /\ scene = <<AxesObject>>

(* ---- discoverMontageFiles on its own ---------------------------------- *)
\* one call of discoverMontageFiles about to make its first probe; nothing
\* else of the program runs
InitDiscovery ==
    /\ numFiles = 0
    /\ dataLen = 0
    /\ currentMode = "3D"
    /\ is3D = TRUE
    /\ imagePositions = <<>>
    /\ spaceBetweenTiles = initialSpaceBetweenTiles
    /\ montageFilePaths = <<>>
    /\ scene = <<>>
    /\ axesHelper = FALSE
    /\ showAxis = TRUE
    /\ needsUpdate = TRUE
    /\ camera = InitialCamera
    /\ controls = [defined |-> FALSE, minPolarAngle |-> 0, maxPolarAngle |-> "PI"]
    /\ animating = FALSE
    /\ totalAssetsToLoad = 0
    /\ assetsLoaded = 0
    /\ uiBound = FALSE
    /\ overlayDisplay = "initial"
    /\ loadingMessage = 0
    /\ hideTimers = 0
    /\ cycles = <<Cycle("init", TRUE, {}, "3D")>>
    /\ nextId = 1
    /\ events = 0
    /\ spacingChanges = 0
    /\ drawn = "none"

\* one iteration of the loop of discoverMontageFiles: the load of
\* montage_<i>.jpg ends with any outcome; the function returns when the loop
\* breaks or i reaches maxAttempts
DiscoverProbe(ok) ==
    LET cy == cycles[1]
        st == DiscoveryStep(cy.i, cy.discovered, ok)
    IN  /\ cy.pc = "probe"
        /\ cycles' = [cycles EXCEPT ![1] =
               [cy EXCEPT !.i = st.i, !.discovered = st.discovered,
                          !.probes = Append(cy.probes, ok),
                          !.pc = IF st.finished THEN "returned" ELSE "probe"]]
        /\ UNCHANGED <<envVars, drawn, currentMode, is3D, imagePositions,
                       spaceBetweenTiles, montageFilePaths, scene, axesHelper,
                       showAxis, needsUpdate, camera, controls, animating,
                       totalAssetsToLoad, assetsLoaded, uiBound, overlayDisplay,
                       loadingMessage, hideTimers, nextId, events>>

NextDiscovery == \E ok \in BOOLEAN : DiscoverProbe(ok)

SpecDiscovery == InitDiscovery /\ [][NextDiscovery]_vars

\* the indices whose probe succeeded, in increasing order
SucceededIndices(probes) ==
    SelectSeq([j \in 1..Len(probes) |-> j - 1], LAMBDA x : probes[x + 1])

\* C18: for every pattern of load successes and failures discoverMontageFiles
\* makes at most maxAttempts (20) probes and has returned after the 20th,
\* probes the indices 0, 1, 2, ... in increasing order, each once, raises no
\* error, and holds (and returns) exactly the indices whose probe succeeded,
\* in increasing order, possibly none.
C18_DiscoveryBoundedAndSound ==
    /\ [](\A c \in 1..Len(cycles) :
            /\ cycles[c].pc \in {"probe", "returned"}
            /\ cycles[c].i = Len(cycles[c].probes)
            /\ cycles[c].i <= maxAttempts
            /\ cycles[c].i = maxAttempts => cycles[c].pc = "returned"
            /\ cycles[c].discovered = SucceededIndices(cycles[c].probes))
    /\ [][\A c \in 1..Len(cycles) :
            cycles'[c] # cycles[c] =>
                /\ cycles[c].pc = "probe"
                /\ Len(cycles'[c].probes) = cycles[c].i + 1
                /\ SubSeq(cycles'[c].probes, 1, cycles[c].i) = cycles[c].probes]_vars

\* all 20 probes were made, some failed, and the function returned the others
C18_Witness ==
    /\ cycles[1].pc = "returned"
    /\ Len(cycles[1].probes) = maxAttempts
    /\ Len(cycles[1].discovered) = maxAttempts - 3
    /\ ~cycles[1].probes[1]

\* the step is the end of the probe of index 0, which failed
FirstProbeFails(c) ==
    /\ cycles[c].pc = "probe"
    /\ cycles[c].i = 0
    /\ cycles'[c].probes = <<FALSE>>

\* C19: if the first probe (index 0) fails, discoverMontageFiles stops at
\* once, without probing index 1, and returns the empty list.
C19_StopsAtFirstFailure ==
    [][\A c \in 1..Len(cycles) :
            FirstProbeFails(c) =>
                /\ cycles'[c].pc = "returned"
                /\ cycles'[c].discovered = <<>>]_vars

\* the probes made so far are those of a server that holds montage files at
\* exactly the indices 0..k-1
FilesExactly(k, probes) ==
    \A j \in 1..Len(probes) : probes[j] <=> (j - 1 < k)

\* C20: when montage files exist at exactly the indices 0..k-1
\* (0 <= k <= 20), discoverMontageFiles returns exactly <<0, ..., k-1>>; for
\* k = 2 the probes of the indices 2 and 3 are made and fail.
C20_ContiguousFilesDiscovered ==
    \A c \in 1..Len(cycles) : \A k \in 0..maxAttempts :
        (cycles[c].pc = "returned" /\ FilesExactly(k, cycles[c].probes)) =>
            /\ cycles[c].discovered = [j \in 1..k |-> j - 1]
            /\ Len(cycles[c].probes) >= Min(k + 1, maxAttempts)
            /\ k = 2 => /\ Len(cycles[c].probes) >= 4
                        /\ ~cycles[c].probes[3]
                        /\ ~cycles[c].probes[4]

\* files at the indices 0 and 1 only: the function has returned both
C20_Witness ==
    /\ cycles[1].pc = "returned"
    /\ FilesExactly(2, cycles[1].probes)
    /\ cycles[1].discovered = <<0, 1>>

(* ---- layout, slicing, camera ------------------------------------------ *)
\* the position the layout rule gives record r in a mode with spacing s
\* (tenths)
LayoutPosition(r, mode, s) ==
    CASE mode = "3D" -> <<r.x * s, r.y * s, r.z * s>>
      [] mode = "2D" -> <<r.x * s, r.y * s, 0>>
      [] mode = "2D_GRID" -> <<r.x * 20, r.y * 20, 0>>

\* the positions (in scene.children) of the tiles the step creates
CreatedTiles ==
    IF Len(scene') > Len(scene)
    THEN LET old == TileIds(scene)
         IN  {i \in Meshes(scene') : scene'[i].id \notin old}
    ELSE {}

\* C21: at the moment a tile is created from dataset record r its position is
\* (r.x*s, r.y*s, r.z*s) in mode 3D, (r.x*s, r.y*s, 0) in mode 2D and
\* (r.x*2, r.y*2, 0) in mode 2D_GRID, s being spaceBetweenTiles at that
\* moment; the 2D_GRID position does not depend on s.
C21_PositionAtCreation ==
    [][\A i \in CreatedTiles :
            /\ scene'[i].pos = LayoutPosition(imagePositions'[scene'[i].d + 1],
                                              currentMode', spaceBetweenTiles')
            /\ currentMode' = "2D_GRID" =>
                   \A s \in SpacingValues \cup {initialSpaceBetweenTiles} :
                       scene'[i].pos =
                           LayoutPosition(imagePositions'[scene'[i].d + 1],
                                          "2D_GRID", s)]_vars

\* tiles were created in 2D_GRID after the spacing slider was moved to 0.5,
\* and stand at twice their record's coordinates
C21_Witness ==
    /\ currentMode = "2D_GRID"
    /\ spaceBetweenTiles = 5
    /\ \E c \in 1..Len(cycles) : CompletedAlone(c) /\ cycles[c].stamp = 1
    /\ \E i \in Meshes(scene) :
           /\ scene[i].d = 16
           /\ scene[i].pos = <<imagePositions[17].x * 20,
                                imagePositions[17].y * 20, 0>>
           /\ scene[i].pos # <<imagePositions[17].x * 5,
                                imagePositions[17].y * 5, 0>>

\* the source rectangle of in-file tile index i lies inside the montage
InsideMontage(origin, size) ==
    /\ origin[1] >= 0 /\ origin[1] + size <= montageTilesX * montageTileResolution
    /\ origin[2] >= 0 /\ origin[2] + size <= montageTilesY * montageTileResolution

\* C22: for every in-file tile index i in 0..(montageTilesX*montageTilesY - 1)
\* the rectangle cut from the montage has origin
\* ((i mod montageTilesX) * res, floor(i / montageTilesX) * res) and size
\* res x res, lies inside a montage of montageTilesX x montageTilesY tiles and
\* differs for different i; with 15 tiles per row and 40 records exactly 40
\* tiles are cut, and index 39 is cut at row 2, column 9.
C22_SourceRectangles ==
    /\ \A i \in Meshes(scene) :
           LET t == scene[i]
           IN  /\ t.slot \in 0..(TilesPerFile - 1)
               /\ t.origin = <<(t.slot % montageTilesX) * montageTileResolution,
                               (t.slot \div montageTilesX) * montageTileResolution>>
               /\ t.size = montageTileResolution
               /\ InsideMontage(t.origin, t.size)
    /\ \A c \in 1..Len(cycles) : \A f \in 0..(MaxFiles - 1) :
           LET cut == {i \in Meshes(scene) :
                          scene[i].cyc = c /\ scene[i].fpos = f}
           IN  /\ Cardinality({scene[i].slot : i \in cut}) = Cardinality(cut)
               /\ Cardinality({scene[i].origin : i \in cut}) = Cardinality(cut)
    /\ \A c \in 1..Len(cycles) :
           (CompletedAlone(c) /\ Len(imagePositions) = 40
                /\ LoadedFiles(cycles[c]) >= 1) =>
               /\ Cardinality(Meshes(scene)) = 40
               /\ \A i \in Meshes(scene) :
                      scene[i].slot = 39 =>
                          scene[i].origin = <<9 * montageTileResolution,
                                              2 * montageTileResolution>>

\* 40 records, one montage: the tile of index 39 has been cut
C22_Witness ==
    /\ Len(imagePositions) = 40
    /\ \E c \in 1..Len(cycles) : CompletedAlone(c)
    /\ Cardinality(Meshes(scene)) = 40
    /\ \E i \in Meshes(scene) :
           scene[i].slot = 39 /\ scene[i].origin = <<2304, 512>>

\* the step in which switch cycle c returns normally
SwitchCompletes(c) ==
    /\ cycles[c].kind = "switch"
    /\ cycles[c].pc \in {"dataset", "montage"}
    /\ cycles'[c].pc = "done"

\* C23: when a mode switch completes, in mode 3D the camera is at the
\* position captured for that switch before the old tiles were cleared and
\* controls.maxPolarAngle is PI; in mode 2D or 2D_GRID the camera is at
\* (0, 0, 50) and controls.maxPolarAngle is PI/2; minPolarAngle is 0 in both
\* cases.
C23_CameraAfterSwitch ==
    [][\A c \in 1..Len(cycles) :
            SwitchCompletes(c) =>
                /\ controls'.minPolarAngle = 0
                /\ IF currentMode' = "3D"
                   THEN /\ camera' = cycles[c].cam
                        /\ controls'.maxPolarAngle = "PI"
                   ELSE /\ camera' = <<0, 0, 50>>
                        /\ controls'.maxPolarAngle = "PI/2"]_vars

\* a switch to 3D has completed and put the camera back where the user had
\* left it before the switch; an earlier switch had set the top-down pose
C23_Witness ==
    \E c \in 1..Len(cycles) :
        /\ c > 1
        /\ CompletedAlone(c)
        /\ cycles[c].kind = "switch"
        /\ currentMode = "3D"
        /\ camera = cycles[c].cam
        /\ camera \in CameraPositions
        /\ controls.maxPolarAngle = "PI"
        /\ cycles[c - 1].jsonMode = "2D_GRID"

\* C24: after a cycle has ended in failure, a failed startup included, a new
\* mode-switch request starts a fresh cycle from discovery, and if every asset
\* of that cycle loads the cycle completes without raising: a switch that ran
\* alone after a failed cycle fails only when one of its own loads failed.
C24_SwitchAfterFailureCompletes ==
    \A c \in 1..Len(cycles) :
        (/\ c > 1
         /\ cycles[c - 1].pc = "failed"
         /\ cycles[c].kind = "switch"
         /\ cycles[c].alone
         /\ cycles[c].pc = "failed") =>
            cycles[c].cause \in {"dataset", "parse"}

\* C25: updatePlanePositions, run on a spacing change, adds and removes no
\* scene object and changes no tile's texture: the scene has the same objects
\* in the same order, each tile with the same montage file and source
\* rectangle.
C25_RepositionKeepsTiles ==
    [][SpacingInputStep =>
            /\ Len(scene') = Len(scene)
            /\ \A k \in 1..Len(scene) :
                   /\ scene'[k].type = scene[k].type
                   /\ scene'[k].id = scene[k].id
                   /\ scene'[k].file = scene[k].file
                   /\ scene'[k].origin = scene[k].origin
                   /\ scene'[k].size = scene[k].size]_vars

\* the slider was moved with 40 tiles and the axes helper in the scene, and
\* tiles stand at positions of the new spacing
C25_Witness ==
    /\ spacingChanges = 1
    /\ spaceBetweenTiles = 20
    /\ Cardinality(Meshes(scene)) = 40
    /\ Len(scene) = 41
    /\ \E i \in Meshes(scene) : scene[i].pos[1] = 20 * 14

\* every call of init / switchVisualizationMode has settled or is suspended
\* on a promise that will never settle, and no timer is pending: nothing of
\* the program is left to run
Quiescent == InFlight = {} /\ hideTimers = 0

\* C26: in every load cycle that runs alone and whose asset loads all finish,
\* the loading indicator is shown after discovery and hidden in the end (after
\* the last tick and the settle delay, or in the catch block): once nothing of
\* the program is left to run after such a cycle, the indicator is hidden.
C26_IndicatorHiddenInTheEnd ==
    \A c \in 1..Len(cycles) :
        (/\ c = Len(cycles) /\ cycles[c].alone
         /\ cycles[c].pc \in {"done", "failed", "hung"}
         /\ uiBound
         /\ Quiescent) => overlayDisplay = "none"

\* the sequence of objects in scene.children
SceneObjects(s) == [k \in 1..Len(s) |-> <<s[k].type, s[k].id>>]

\* the step ends init(): animate() has drawn the scene after the last change
DrawnInStep ==
    \E c \in 1..Len(cycles) :
        cycles[c].kind = "init" /\ cycles[c].pc # "done" /\ cycles'[c].pc = "done"

\* C27: every structural change of the scene (tiles added, tiles cleared, axes
\* helper added or removed) sets needsUpdate to true before control returns to
\* the event loop (unless the scene was drawn after the change in the same
\* run), on the success path and the failure path of a mode switch alike.
C27_StructuralChangeSetsDirty ==
    [][(SceneObjects(scene') # SceneObjects(scene) /\ ~DrawnInStep) =>
            needsUpdate']_vars

\* C28: discoverMontageFiles stops probing as soon as two consecutive probes
\* have failed: after failures at the indices i and i+1 no higher index is
\* probed.
C28_StopsAfterTwoFailures ==
    [][\A c \in 1..Len(cycles) :
            LET n == Len(cycles[c].probes)
            IN  (n >= 2 /\ ~cycles[c].probes[n] /\ ~cycles[c].probes[n - 1]) =>
                    cycles'[c].probes = cycles[c].probes]_vars

\* the step is a mode-switch request made while a load cycle is in flight
OverlappingRequest == Len(cycles') = Len(cycles) + 1 /\ InFlight # {}

\* C29: a mode-switch request that arrives while another load cycle is in
\* flight is neither rejected, queued nor cancelled: the new call starts its
\* discovery at once and every cycle in flight stays as it is, to go on at
\* its await; a state is reachable in which the scene holds tiles of both
\* cycles, more than the dataset has records.
C29_OverlappingSwitchRuns ==
    [][OverlappingRequest =>
            /\ cycles'[Len(cycles')].pc = "probe"
            /\ cycles'[Len(cycles')].kind = "switch"
            /\ \A c \in InFlight :
                   /\ cycles'[c].pc = cycles[c].pc
                   /\ cycles'[c] = [cycles[c] EXCEPT !.alone = FALSE]
            /\ scene' = scene /\ imagePositions' = imagePositions]_vars

\* tiles placed by two cycles are in the scene together, more of them than
\* the dataset has records
C29_Witness ==
    /\ \E i, j \in Meshes(scene) : scene[i].cyc # scene[j].cyc
    /\ Cardinality(Meshes(scene)) > Len(imagePositions)
    /\ Len(imagePositions) > 0

\* no call of init / switchVisualizationMode is pending
NoCyclePending ==
    \A c \in 1..Len(cycles) : cycles[c].pc \in {"done", "failed"}

\* C30: whenever no load cycle is in flight, imagePositions holds the dataset
\* of currentMode, for every sequence of mode-switch requests, requests made
\* while an earlier switch was loading included.
C30_DatasetMatchesMode ==
    NoCyclePending => imagePositions = DatasetFile(currentMode, dataLen)

(* ---- indicator, discovery result, sequencing, modes ------------------- *)
\* C31: the loading indicator is never hidden while a load cycle that has
\* shown it still has asset loads outstanding; so the delayed hide scheduled
\* by the last tick of one cycle never hides the indicator of a later cycle.
C31_IndicatorShownWhileLoading ==
    \A c \in 1..Len(cycles) :
        (cycles[c].shown /\ cycles[c].pc \in {"dataset", "montage"}) =>
            overlayDisplay = "flex"

\* C32: the list discoverMontageFiles returns is a gap-free prefix of the
\* file indices: its k entries are montage_0 .. montage_(k-1).
C32_DiscoveredIsPrefix ==
    \A c \in 1..Len(cycles) :
        cycles[c].pc # "probe" =>
            cycles[c].discovered =
                [j \in 1..Len(cycles[c].discovered) |-> j - 1]

\* the tiles of cycle c in the scene, in scene order
CycleTiles(c) == SelectSeq(scene, LAMBDA o : o.type = "Mesh" /\ o.cyc = c)

\* C33: within one load cycle the montage files are handled one after
\* another in discovery order: while file k is loading the loads of the k-1
\* files before it have ended and their tiles are in the scene; the tiles of
\* the cycle stand in the scene in strictly increasing dataset-index order,
\* file after file, and the running offset is the number of tiles the cycle
\* has placed so far.
C33_SequentialPlacement ==
    \A c \in 1..Len(cycles) :
        LET cy == cycles[c]
            tiles == CycleTiles(c)
        IN  /\ cy.pc = "montage" =>
                   /\ Len(cy.results) = cy.k - 1
                   /\ \A k \in 1..Len(tiles) : tiles[k].fpos < cy.k - 1
            /\ (cy.alone /\ c = Len(cycles) /\ cy.pc \in {"montage", "done"}) =>
                   /\ Len(tiles) = cy.offset
                   /\ \A k \in 1..(Len(tiles) - 1) :
                          /\ tiles[k].d < tiles[k + 1].d
                          /\ tiles[k].fpos <= tiles[k + 1].fpos

\* the second of two montage files is loading, and the 225 tiles of the first
\* are in the scene
C33_Witness ==
    \E c \in 1..Len(cycles) :
        /\ cycles[c].alone
        /\ cycles[c].pc = "montage"
        /\ cycles[c].k = 2
        /\ cycles[c].offset = TilesPerFile
        /\ Len(CycleTiles(c)) = TilesPerFile

\* C34: at every point where control returns to the event loop (every await
\* and every handler end) is3D is true exactly when currentMode is '3D'.
C34_Is3DMatchesMode == is3D <=> (currentMode = "3D")

\* a switch cycle waits at an await with the mode advanced to 2D_GRID
C34_Witness ==
    /\ currentMode = "2D_GRID"
    /\ ~is3D
    /\ \E c \in 1..Len(cycles) : cycles[c].pc = "montage" /\ cycles[c].kind = "switch"

\* the successor of a mode in the fixed cycle
ModeAfter(mode) ==
    CASE mode = "3D" -> "2D"
      [] mode = "2D" -> "2D_GRID"
      [] mode = "2D_GRID" -> "3D"

\* C35: currentMode is always one of 3D, 2D, 2D_GRID; it is changed only by
\* a mode-switch request getting past discovery, which advances it one step
\* in the cycle 3D -> 2D -> 2D_GRID -> 3D from its value at the time
\* discovery returns (not at the click); three steps return to the start.
C35_ModeCycle ==
    /\ [](currentMode \in {"3D", "2D", "2D_GRID"})
    /\ [](NextMode(NextMode(NextMode(currentMode))) = currentMode)
    /\ [][\A c \in 1..Len(cycles) :
            (cycles[c].kind = "switch" /\ DiscoveryReturns(c)) =>
                currentMode' = ModeAfter(currentMode)]_vars
    /\ [][currentMode' # currentMode =>
            \E c \in 1..Len(cycles) :
                cycles[c].kind = "switch" /\ DiscoveryReturns(c)]_vars

\* three requests have brought the mode back to 3D; one of them was made in
\* mode 3D while another was in flight, and stepped from 2D to 2D_GRID
C35_Witness ==
    /\ Len(cycles) = 4
    /\ \A c \in 1..4 : cycles[c].pc = "done"
    /\ currentMode = "3D"
    /\ \E c \in 2..4 :
           cycles[c].modeBefore = "3D" /\ cycles[c].jsonMode = "2D_GRID"

\* C37: repositioning uses the same coordinate mapping as placement: a call
\* of updatePlanePositions with the spacing value unchanged since the tiles
\* were placed leaves every tile at the position it was created at.
C37_RepositionSameAsPlacement ==
    [][(/\ SpacingInputStep
        /\ spacingChanges = 0
        /\ spaceBetweenTiles' = spaceBetweenTiles
        /\ \E c \in 1..Len(cycles) : CompletedAlone(c)) =>
            \A i \in Meshes(scene) : scene'[i].pos = scene[i].pos]_vars

\* the number of axes helpers in scene.children
AxesCount(s) == Len(SelectSeq(s, LAMBDA o : o.type = "AxesHelper"))

\* C38: after startup has completed without error, and after every axis
\* toggle from then on, the scene holds exactly one axes helper when showAxis
\* is true and none when it is false; it never holds more than one.
C38_AxesHelperMatchesShowAxis ==
    /\ AxesCount(scene) <= 1
    /\ cycles[1].pc = "done" =>
           AxesCount(scene) = IF showAxis THEN 1 ELSE 0

(* ---- redraws ---------------------------------------------------------- *)
\* C36: a redraw (renderer.render) is issued in an animation frame only if
\* needsUpdate is set at that frame, and the redraw clears the flag.
C36_RedrawOnlyWhenDirty ==
    [][AnimationFrame =>
            /\ drawn' \in {"dirty", "clean"} => needsUpdate
            /\ drawn' \in {"dirty", "clean"} => ~needsUpdate']_vars

(* ---- the single-atlas viewer (src/main.js) ---------------------------- *)
\* One atlas image, one dataset file, no modes and no loading overlay: the
\* variables of the mode viewer that main.js does not have keep their
\* initial values.
atlasPlaneCount == 300
atlasPlanesPerRow == 20
atlasChunkSize == 128

\* spacing and axis-checkbox events in one behaviour of the atlas viewer
MaxAtlasEvents == 2

\* lengths of atlas_images/color_coords.json the server may hold
AtlasDatasetLengths == {40, 300, 320}

atlasUnused ==
    <<numFiles, currentMode, is3D, montageFilePaths, camera, controls,
      animating, totalAssetsToLoad, assetsLoaded, uiBound, overlayDisplay,
      loadingMessage, hideTimers>>

\* JSON.parse(data) of color_coords.json
AtlasDatasetFile(len) ==
    [k \in 1..len |-> [x |-> ((k - 1) % 20) - 10, y |-> 7 - ((k - 1) \div 20),
                       z |-> 0]]

\* plane.position.set(positionX, positionY, 0)
AtlasPosition(rec, spacing) == <<rec.x * spacing, rec.y * spacing, 0>>

\* x = col * chunkSize, y = row * chunkSize
AtlasChunkOrigin(i, planesPerRow) ==
    <<(i % planesPerRow) * atlasChunkSize, (i \div planesPerRow) * atlasChunkSize>>

\* the planes the for loop creates before it ends or throws: the read of
\* imagePositions[i].x throws a TypeError at the first i past the dataset
AtlasCreatedCount(len) == Min(atlasPlaneCount, len)

AtlasNewTiles(planesPerRow) ==
    [k \in 1..AtlasCreatedCount(Len(imagePositions)) |->
        LET i == k - 1
        IN  [type |-> "Mesh", id |-> nextId + i,
             pos |-> AtlasPosition(imagePositions[i + 1], spaceBetweenTiles),
             file |-> 1, origin |-> AtlasChunkOrigin(i, planesPerRow),
             size |-> atlasChunkSize,
             slot |-> i, d |-> i, fpos |-> 0, cyc |-> 1]]

\* the first child of scene.children (1-based) at which updatePlanePositions
\* throws: a Mesh whose index has no record; Len(s) + 1 when there is none
AtlasThrowsAt(s) ==
    LET bad == {k \in 1..Len(s) :
                    s[k].type = "Mesh" /\ k - 1 >= Len(imagePositions)}
    IN  IF bad = {} THEN Len(s) + 1
        ELSE CHOOSE k \in bad : \A j \in bad : k <= j

\* scene.children after updatePlanePositions(), run to its end or its throw
AtlasRepositionedScene(s, spacing) ==
    LET stop == AtlasThrowsAt(s)
    IN  [k \in 1..Len(s) |->
            IF s[k].type = "Mesh" /\ k < stop
            THEN [s[k] EXCEPT !.pos = AtlasPosition(imagePositions[k], spacing)]
            ELSE s[k]]

\* the script has run: the dataset request is out, animate() is running
InitAtlas ==
    /\ numFiles = 1
    /\ dataLen \in AtlasDatasetLengths
    /\ currentMode = "2D"
    /\ is3D = FALSE
    /\ imagePositions = <<>>
    /\ spaceBetweenTiles = initialSpaceBetweenTiles
    /\ montageFilePaths = <<>>
    /\ scene = <<>>
    /\ axesHelper = FALSE
    /\ showAxis = TRUE
    /\ needsUpdate = TRUE
    /\ camera = InitialCamera
    /\ controls = [defined |-> FALSE, minPolarAngle |-> 0, maxPolarAngle |-> "PI"]
    /\ animating = TRUE
    /\ totalAssetsToLoad = 0
    /\ assetsLoaded = 0
    /\ uiBound = FALSE
    /\ overlayDisplay = "initial"
    /\ loadingMessage = 0
    /\ hideTimers = 0
    /\ cycles = <<[Cycle("atlas", TRUE, {}, "2D") EXCEPT !.pc = "dataset"]>>
    /\ nextId = 1
    /\ events = 0
    /\ spacingChanges = 0
    /\ drawn = "none"

\* the onLoad callback of file_loader.load: the dataset is parsed and
\* createAndRenderPlanes('atlas_images/atlas_1.jpg') runs up to its await
AtlasDatasetLoaded ==
    /\ cycles[1].pc = "dataset"
    /\ imagePositions' = AtlasDatasetFile(dataLen)
    /\ cycles' = [cycles EXCEPT ![1].pc = "montage", ![1].k = 1]
    /\ UNCHANGED <<atlasUnused, dataLen, spaceBetweenTiles, scene, axesHelper,
                   showAxis, needsUpdate, nextId, events, spacingChanges,
                   drawn>>

\* the dataset request fails: no onError callback is given, nothing runs
AtlasDatasetFailed ==
    /\ cycles[1].pc = "dataset"
    /\ cycles' = [cycles EXCEPT ![1] = Ended([cycles[1] EXCEPT !.pc = "failed",
                                                              !.cause = "dataset"],
                                             scene)]
    /\ UNCHANGED <<atlasUnused, dataLen, imagePositions, spaceBetweenTiles,
                   scene, axesHelper, showAxis, needsUpdate, nextId, events,
                   spacingChanges, drawn>>

\* createAndRenderPlanes(imageSrc, planesPerRow = 20) resumes after
\* 'await loadImage(imageSrc)': on success the loop runs for i = 0 .. 299 and
\* is cut off by the TypeError of imagePositions[i].x at the first i without a
\* record, the planes made so far staying in the scene; on failure the
\* rejection leaves the function at once
AtlasImageLoaded(ok) ==
    LET cy == cycles[1]
        tiles == IF ok THEN AtlasNewTiles(atlasPlanesPerRow) ELSE <<>>
        complete == ok /\ Len(imagePositions) >= atlasPlaneCount
        scene1 == IF complete THEN AxesUpdatedScene(scene \o tiles)
                  ELSE scene \o tiles
        cy1 == [cy EXCEPT !.results = <<ok>>,
                          !.offset = Len(tiles),
                          !.pc = IF complete THEN "done" ELSE "failed",
                          !.cause = IF complete THEN "none"
                                    ELSE IF ok THEN "index" ELSE "image"]
    IN  /\ cy.pc = "montage"
        /\ scene' = scene1
        /\ axesHelper' = IF complete THEN AxesUpdatedHelper ELSE axesHelper
        /\ needsUpdate' = IF complete THEN TRUE ELSE needsUpdate
        /\ nextId' = nextId + Len(tiles)
        /\ cycles' = [cycles EXCEPT ![1] = Ended(cy1, scene1)]
        /\ UNCHANGED <<atlasUnused, dataLen, imagePositions, spaceBetweenTiles,
                       showAxis, events, spacingChanges, drawn>>

\* input on spaceBetweenTilesSlider: updateSpaceBetweenTiles(); needsUpdate
\* is set only when updatePlanePositions() runs to its end
AtlasSpacingInput(value) ==
    /\ events < MaxAtlasEvents
    /\ events' = events + 1
    /\ spaceBetweenTiles' = value
    /\ spacingChanges' = spacingChanges + 1
    /\ scene' = AtlasRepositionedScene(scene, value)
    /\ needsUpdate' = IF AtlasThrowsAt(scene) > Len(scene) THEN TRUE
                      ELSE needsUpdate
    /\ UNCHANGED <<atlasUnused, dataLen, imagePositions, axesHelper, showAxis,
                   cycles, nextId, drawn>>

\* change of toggleAxesCheckbox
AtlasAxesChange(checked) ==
    /\ events < MaxAtlasEvents
    /\ events' = events + 1
    /\ showAxis' = checked
    /\ scene' = IF checked
                THEN IF ~axesHelper THEN Append(scene, AxesObject) ELSE scene
                ELSE IF axesHelper
                     THEN SelectSeq(scene, LAMBDA o : o.type # "AxesHelper")
                     ELSE scene
    /\ axesHelper' = checked
    /\ needsUpdate' = TRUE
    /\ UNCHANGED <<atlasUnused, dataLen, imagePositions, spaceBetweenTiles,
                   cycles, nextId, spacingChanges, drawn>>

\* animate(): the scene is drawn when needsUpdate is set, and the flag cleared
AtlasFrame ==
    /\ animating
    /\ drawn' = IF needsUpdate THEN "dirty" ELSE "idle"
    /\ needsUpdate' = FALSE
    /\ UNCHANGED <<atlasUnused, dataLen, imagePositions, spaceBetweenTiles,
                   scene, axesHelper, showAxis, cycles, nextId, events,
                   spacingChanges>>

NextAtlas ==
    \/ AtlasDatasetLoaded
    \/ AtlasDatasetFailed
    \/ \E ok \in BOOLEAN : AtlasImageLoaded(ok)
    \/ \E value \in SpacingValues : AtlasSpacingInput(value)
    \/ \E checked \in BOOLEAN : AtlasAxesChange(checked)
    \/ AtlasFrame

SpecAtlas == InitAtlas /\ [][NextAtlas]_vars

\* C39: in the single-atlas viewer, once the atlas image has loaded,
\* createAndRenderPlanes has created 300 planes whatever the length of the
\* loaded dataset: plane i is cut from atlas row floor(i/20), column i mod 20
\* and positioned from record i, and no index outside the dataset was read.
C39_AtlasCreates300Planes ==
    LET cy == cycles[1]
    IN  (cy.kind = "atlas" /\ cy.results = <<TRUE>>) =>
            /\ cy.cause # "index"
            /\ cy.count = atlasPlaneCount
            /\ cy.stamp = spacingChanges =>
                   \A p \in cy.placed :
                       /\ p[1] < Len(imagePositions)
                       /\ p[2] = AtlasPosition(imagePositions[p[1] + 1],
                                               spaceBetweenTiles)
            /\ \A k \in Meshes(scene) :
                   /\ scene[k].d = scene[k].slot
                   /\ scene[k].origin =
                          <<(scene[k].slot % 20) * 128, (scene[k].slot \div 20) * 128>>
====
